---- MODULE Spec2Model ----
(***************************************************************************)
(* Model of src/app.py: the Shopify -> Slack reaction relay.               *)
(*                                                                         *)
(* The web server runs shopify_webhook on several request threads that     *)
(* share the module-level dict order_tracking.  Each thread is a process   *)
(* of the model; its position in the handler is pc[p], its local variables *)
(* are frame[p].  The dict maps an order number to a dict object; objects  *)
(* live in a heap (objs) because a handler keeps a reference (track) to    *)
(* the object it read, which another handler may have replaced in the map. *)
(* Texts, names and order numbers are sequences of one-character strings,  *)
(* so that the string operations of the code are computed, not assumed.    *)
(***************************************************************************)
EXTENDS Integers, Sequences, FiniteSets, TLC

(* ------------------------------ bounds -------------------------------- *)
\* number of request threads is fixed by Procs; the bounds below cap the run
MaxDeliveries == 2
MaxMsgs == 2

Procs == {1, 2}

(* ---------------------------- characters ------------------------------ *)
UpperAlpha == <<"A","B","C","D","E","F","G","H","I","J","K","L","M",
                "N","O","P","Q","R","S","T","U","V","W","X","Y","Z">>
LowerAlpha == <<"a","b","c","d","e","f","g","h","i","j","k","l","m",
                "n","o","p","q","r","s","t","u","v","w","x","y","z">>
Digits == {"0","1","2","3","4","5","6","7","8","9"}
Spaces == {" "}

SeqRange(s) == {s[i] : i \in 1..Len(s)}

IsDigit(c) == c \in Digits
IsSpace(c) == c \in Spaces
\* \w of the re module: letters, digits and the underscore
IsWord(c) == c \in SeqRange(UpperAlpha) \cup SeqRange(LowerAlpha) \cup Digits \cup {"_"}

\* str.lower() on one character
LowerChar(c) ==
    IF c \in SeqRange(UpperAlpha)
    THEN LowerAlpha[CHOOSE i \in 1..Len(UpperAlpha) : UpperAlpha[i] = c]
    ELSE c

\* str.lower()
lower(s) == [i \in 1..Len(s) |-> LowerChar(s[i])]

Min(S) == CHOOSE x \in S : \A y \in S : x <= y

(* ------------------- is_new_order_message (27-31) --------------------- *)
Marker == <<"s","t",".","o","r","d","e","r">>

\* word character at position i of t, positions outside t are not word characters
WordAt(t, i) == i >= 1 /\ i <= Len(t) /\ IsWord(t[i])

\* \b between positions i-1 and i
Boundary(t, i) == WordAt(t, i - 1) # WordAt(t, i)

\* first position >= i that does not hold a character of class C(_)
RunEnd(t, i, C(_)) ==
    Min({j \in i..(Len(t) + 1) : j = Len(t) + 1 \/ ~C(t[j])})

NoMatch == << >>

\* the regular expression \bst\.order\s+#?(\d+)\b anchored at position i of t:
\* group(1), or NoMatch.  Each quantifier is greedy and no shorter choice can
\* succeed (a shorter \s+ or \d+ run leaves a character the next item rejects).
MatchAt(t, i) ==
    LET afterMarker == i + Len(Marker)
        afterSpace  == RunEnd(t, afterMarker, IsSpace)
        afterHash   == IF afterSpace <= Len(t) /\ t[afterSpace] = "#"
                       THEN afterSpace + 1 ELSE afterSpace
        afterDigits == RunEnd(t, afterHash, IsDigit)
    IN  IF /\ Boundary(t, i)
           /\ afterMarker - 1 <= Len(t)
           /\ SubSeq(t, i, afterMarker - 1) = Marker
           /\ afterSpace > afterMarker
           /\ afterDigits > afterHash
           /\ Boundary(t, afterDigits)
        THEN SubSeq(t, afterHash, afterDigits - 1)
        ELSE NoMatch

\* re.search: the match at the leftmost position that has one
Search(t) ==
    LET starts == {i \in 1..Len(t) : MatchAt(t, i) # NoMatch}
    IN  IF starts = {} THEN NoMatch ELSE MatchAt(t, Min(starts))

is_new_order_message(text, order_number) ==
    IF Len(text) = 0
    THEN FALSE
    ELSE LET group1 == Search(lower(text))
         IN  group1 # NoMatch /\ group1 = order_number

(* ------------------------------ values -------------------------------- *)
\* Python's None for a status value or a reaction name (never a real value)
NONE == "<None>"

\* truth value of an optional string
Truthy(v) == v # NONE /\ v # ""

\* a JSON name field: missing key, null, or a string
Absent == [t |-> "absent"]
Null   == [t |-> "null"]
Str(s) == [t |-> "str", s |-> s]

\* str(None)
NoneText == <<"N","o","n","e">>

(* --------------------- order number (160-168) ------------------------- *)
\* str.replace("#", "")
RemoveHashes(s) == SelectSeq(s, LAMBDA c : c # "#")

\* str.strip()
strip(s) ==
    LET keep == {i \in 1..Len(s) : ~IsSpace(s[i])}
    IN  IF keep = {} THEN << >>
        ELSE SubSeq(s, Min(keep), CHOOSE i \in keep : \A j \in keep : j <= i)

\* order.get("name", "") then str(): a missing key gives "", null gives "None"
NameText(name) ==
    CASE name.t = "absent" -> << >>
      [] name.t = "null"   -> NoneText
      [] OTHER             -> name.s

OrderNumber(order) == strip(RemoveHashes(NameText(order.name)))

\* data.get("order", data)
Unwrap(data) == IF "order" \in DOMAIN data THEN data.order ELSE data

(* ---------------------- emoji mappings (88-107) ----------------------- *)
\* payment_reaction with the emoji of two entries exchanged
payment_reaction_swapped(status) ==
    CASE status = "pending"    -> "hourglass_flowing_sand"
      [] status = "authorized" -> "lock"
      [] status = "paid"       -> "x"
      [] status = "voided"     -> "white_check_mark"
      [] OTHER                 -> NONE

payment_reaction(status) ==
    CASE status = "pending"    -> "hourglass_flowing_sand"
      [] status = "authorized" -> "lock"
      [] status = "paid"       -> "white_check_mark"
      [] status = "voided"     -> "x"
      [] OTHER                 -> NONE

fulfillment_reaction(status) ==
    CASE status = "unfulfilled" -> "mailbox_with_no_mail"
      [] status = "fulfilled"   -> "rocket"
      [] OTHER                  -> NONE

\* str.lower() on the stock values the metadata query can return
lowerStatus(status) ==
    CASE status = "Stock Available" -> "stock available"
      [] status = "STOCK AVAILABLE" -> "stock available"
      [] status = "Out Of Stock"    -> "out of stock"
      [] OTHER                      -> status

stock_reaction(status) ==
    IF Truthy(status) /\ lowerStatus(status) = "stock available"
    THEN "package"
    ELSE NONE

(* ------------------- fetch_stock_status (141-150) --------------------- *)
\* JSON values of the metadata response
JNull   == [t |-> "null"]
JObj(f) == [t |-> "obj", f |-> f]
JStr(s) == [t |-> "str", s |-> s]
Raised  == [t |-> "raise"]
EmptyObj == JObj([k \in {} |-> JNull])

\* x.get(k, default): raises AttributeError when x is not a dict
Get(x, k, default) ==
    CASE x.t = "raise" -> Raised
      [] x.t = "obj"   -> IF k \in DOMAIN x.f THEN x.f[k] ELSE default
      [] OTHER         -> Raised

\* resp.json().get("data", {}).get("order", {}).get("metafield", {}).get("value")
StockValue(body) ==
    LET v == Get(Get(Get(Get(body, "data", EmptyObj), "order", EmptyObj),
                     "metafield", EmptyObj), "value", JNull)
    IN  v

(* ------------------------------ inputs -------------------------------- *)
\* the two channels in the other order
CHANNELS_SWAPPED == <<"C0A068PHZMY", "C0A02M2VCTB">>

\* CHANNELS_TO_SEARCH (15-18)
CHANNELS_TO_SEARCH == <<"C0A02M2VCTB", "C0A068PHZMY">>

\* page size of conversations.history (46)
Limit == 100

\* the announcement that is in the first channel from the start, and the
\* texts that may be posted while the relay runs
FirstText == <<"s","t",".","o","r","d","e","r"," ","1","2">>
Texts     == { <<"S","T",".","o","r","d","e","r"," ","#","7">> }

\* the orders a webhook may carry: names that give an order number with
\* several status values, and names that are missing, null or empty
Name7  == Str(<<"#","7">>)
Name12 == Str(<<"1","2">>)
OrderId == 5001

Order(name, financial_status, fulfillment_status) ==
    [name |-> name, financial_status |-> financial_status,
     fulfillment_status |-> fulfillment_status, id |-> OrderId]

Orders == { Order(Name7, "paid", NONE),
            Order(Name7, "paid", "fulfilled"),
            Order(Name7, "refunded", "fulfilled"),
            Order(Name12, "paid", NONE),
            Order(Absent, "paid", NONE),
            Order(Null, "paid", NONE),
            Order(Str(<< >>), "paid", NONE) }

\* the response holds a string at data / order / metafield / value
HasValue(body) ==
    /\ body.t = "obj" /\ "data" \in DOMAIN body.f
    /\ body.f.data.t = "obj" /\ "order" \in DOMAIN body.f.data.f
    /\ body.f.data.f.order.t = "obj" /\ "metafield" \in DOMAIN body.f.data.f.order.f
    /\ body.f.data.f.order.f.metafield.t = "obj"
    /\ "value" \in DOMAIN body.f.data.f.order.f.metafield.f
    /\ body.f.data.f.order.f.metafield.f.value.t = "str"

\* bodies the metadata query can answer with
Metafield(v) == JObj([data |-> JObj([order |-> JObj([metafield |-> v])])])
StockBodies == <<
    Metafield(JObj([value |-> JStr("Stock Available")])),
    Metafield(JObj([value |-> JStr("Out Of Stock")])),
    Metafield(JObj([value |-> JNull])),
    Metafield(JNull),
    JObj([data |-> JObj([order |-> JNull])]),
    JObj([errors |-> JStr("throttled")]) >>

Dims == {"payment", "fulfillment", "stock"}

(* ------------------------------- state -------------------------------- *)
VARIABLES
    order_tracking,  \* the dict: order number -> reference to a record object
    objs,            \* heap of record objects, a reference is an index
    history,         \* per channel, its messages, most recent first
    pc,              \* per request thread, its position in shopify_webhook
    frame,           \* per request thread, the handler's local variables
    obs,             \* per request thread, what this delivery did so far
    answered,        \* the delivery the latest step answered, if it answered one
    writes,          \* per order number, how many deliveries wrote its map entry
    delivered,       \* number of webhooks received so far
    reported,        \* tracked_orders as the latest step reported it on /health
    threads          \* number of request threads the server runs

vars == <<order_tracking, objs, history, pc, frame, obs, answered, writes, delivered,
          reported, threads>>

NoResponse == [status |-> 0, body |-> "none"]
\* the latest step was no answer of /health
NoReport   == -1
NoCall     == [name |-> NONE, channel |-> NONE, ts |-> 0, outcome |-> "none"]
NoRecord   == [ts |-> 0, channel |-> NONE,
               payment |-> NONE, fulfillment |-> NONE, stock |-> NONE]
UNSEEN     == "<unseen>"
NoOrder    == [name |-> Absent, financial_status |-> NONE,
               fulfillment_status |-> NONE, id |-> 0]

IdleFrame == [order |-> NoOrder, order_number |-> << >>, channel_i |-> 0,
              ts |-> 0, channel |-> NONE, track |-> 0, stock |-> NONE,
              response |-> NoResponse]

\* what a delivery remembers of the delivery answered by the step before its
\* first step, when that one had the same payload or was answered 202 for the
\* same order number
NoPrev == [same |-> FALSE, number |-> << >>, solo |-> FALSE, status |-> 0,
           stock |-> NONE, reacted |-> {}]

IdleObs == [fetched |-> << >>, replies |-> << >>, resolution |-> "none",
            reacts |-> [d \in Dims |-> NoCall],
            seen |-> [d \in Dims |-> UNSEEN], queried |-> FALSE, lacking |-> FALSE,
            solo |-> FALSE, pre |-> NoRecord, prev |-> NoPrev]

\* a delivery that has been answered: its locals, what it did, and the record
\* of its order number at the moment of the answer; NoDelivery when the latest
\* step answered nothing
NoDelivery == [frame |-> IdleFrame, obs |-> IdleObs, post |-> NoRecord]

\* the record an order number maps to, NoRecord when the key is missing
RecordOf(n) == IF n \in DOMAIN order_tracking THEN objs[order_tracking[n]] ELSE NoRecord

WritesOf(n) == IF n \in DOMAIN writes THEN writes[n] ELSE 0

Posted == Len(history[CHANNELS_TO_SEARCH[1]]) + Len(history[CHANNELS_TO_SEARCH[2]]) - 1

Start ==
    /\ order_tracking = << >>
    /\ objs = << >>
    /\ history = [c \in SeqRange(CHANNELS_TO_SEARCH) |->
                     IF c = CHANNELS_TO_SEARCH[1]
                     THEN <<[ts |-> 1, text |-> FirstText]>> ELSE << >>]
    /\ answered = NoDelivery
    /\ pc = [p \in Procs |-> "idle"]
    /\ frame = [p \in Procs |-> IdleFrame]
    /\ obs = [p \in Procs |-> IdleObs]
    /\ writes = << >>
    /\ reported = NoReport
    /\ delivered = 0

\* a server that handles requests on two threads at a time
Init == Start /\ threads = 2

\* a server with one synchronous worker: one request at a time
InitSeq == Start /\ threads = 1

(* --------------------------- environment ------------------------------ *)
\* somebody posts a message to a channel; the newest message comes first
PostMessage(c, text) ==
    /\ Posted < MaxMsgs
    /\ history' = [history EXCEPT ![c] = <<[ts |-> Posted + 2, text |-> text]>> \o @]
    /\ answered' = NoDelivery
    /\ reported' = NoReport
    /\ UNCHANGED <<order_tracking, objs, pc, frame, obs, writes, delivered, threads>>

(* ------------------------ shopify_webhook ----------------------------- *)
\* the handler returns: the answer leaves the server and the thread is free
\* for the next request.  o is what the delivery did, the last step included,
\* post the record of its order number as the last step leaves it.
Respond(p, f, o, post, status, body) ==
    /\ answered' = [frame |-> [f EXCEPT !.response = [status |-> status, body |-> body]],
                obs   |-> o,
                post  |-> post]
    /\ frame' = [frame EXCEPT ![p] = IdleFrame]
    /\ obs' = [obs EXCEPT ![p] = IdleObs]
    /\ pc' = [pc EXCEPT ![p] = "idle"]
    /\ reported' = NoReport

\* the handler goes on at position at, with locals f, having done o
Goto(p, f, o, at) ==
    /\ frame' = [frame EXCEPT ![p] = f]
    /\ obs' = [obs EXCEPT ![p] = o]
    /\ pc' = [pc EXCEPT ![p] = at]
    /\ answered' = NoDelivery
    /\ reported' = NoReport

\* an exception no handler catches: Flask answers 500
Abort(p, f, o) == Respond(p, f, o, RecordOf(f.order_number), 500, "internal server error")

\* Known that has forgotten every record
KnownNever(n) == FALSE

\* `order_number not in order_tracking` (171), negated
Known(n) == n \in DOMAIN order_tracking

\* lines 160-171: read the payload, derive the order number, look it up; the
\* payload is one of orders
Deliver(p, orders) ==
    /\ pc[p] = "idle"
    /\ p <= threads
    /\ \A q \in Procs : q < p => pc[q] # "idle"
    /\ delivered < MaxDeliveries
    /\ delivered' = delivered + 1
    /\ \E o \in orders, wrapped \in BOOLEAN :
         LET data  == IF wrapped THEN [order |-> o] ELSE o
             order == Unwrap(data)
             n     == OrderNumber(order)
             known == Known(n)
             f     == [IdleFrame EXCEPT !.order = order, !.order_number = n,
                                        !.channel_i = IF known THEN 0 ELSE 1]
             alone == \A q \in Procs \ {p} : pc[q] = "idle"
             last  == [same    |-> answered.frame.order = order,
                       number  |-> answered.frame.order_number,
                       solo    |-> answered.obs.solo,
                       status  |-> answered.frame.response.status,
                       stock   |-> answered.frame.stock,
                       reacted |-> {d \in Dims : answered.obs.reacts[d] # NoCall}]
             me    == [IdleObs EXCEPT
                         !.solo = alone,
                         !.pre  = RecordOf(n),
                         !.prev = IF last.same \/ (last.number = n /\ last.status = 202)
                                  THEN last ELSE NoPrev]
         IN  IF Len(n) = 0
             THEN /\ Respond(p, f, me, RecordOf(n), 400, "order number missing")
                  /\ UNCHANGED <<order_tracking, objs>>
             ELSE /\ frame' = [frame EXCEPT ![p] = f]
                  /\ pc' = [pc EXCEPT ![p] = IF known THEN "payment_check" ELSE "search"]
                  /\ obs' = [q \in Procs |->
                               IF q = p THEN me
                               ELSE [obs[q] EXCEPT !.solo = FALSE]]
                  /\ answered' = NoDelivery
                  /\ reported' = NoReport
                  /\ UNCHANGED <<order_tracking, objs>>
    /\ UNCHANGED <<history, writes, threads>>

Receive(p) == Deliver(p, Orders)

\* the page conversations.history returns: the most recent Limit messages
Page(msgs) == SubSeq(msgs, 1, IF Len(msgs) < Limit THEN Len(msgs) ELSE Limit)

\* the first match of messages as the API lists them, without reversed()
FirstMatch(msgs, n) ==
    LET hits == {i \in 1..Len(msgs) : is_new_order_message(msgs[i].text, n)}
    IN  IF hits = {} THEN 0 ELSE Min(hits)

\* lines 55-58: the first match of reversed(messages), 0 when there is none
FirstReversedMatch(msgs, n) ==
    LET hits == {i \in 1..Len(msgs) : is_new_order_message(msgs[i].text, n)}
    IN  IF hits = {} THEN 0 ELSE CHOOSE i \in hits : \A j \in hits : j <= i

\* lines 42-61: one round of the loop over the channels, for channel number
\* channel_i; leaving the loop without a match returns (None, None) and the
\* handler answers 202 (173-174)
\* NotFound that remembers the failed search: a record without a message is stored
NotFoundRemembered(p, f, o) ==
    Goto(p, f, [o EXCEPT !.resolution = "not found"], "create")

\* lines 60-61 and 173-174: no channel had a match, (None, None) comes back
\* and the handler answers 202 without touching order_tracking
NotFound(p, f, o) ==
    Respond(p, f, [o EXCEPT !.resolution = "not found"], RecordOf(f.order_number),
            202, "ok false")

FetchHistory(p) ==
    /\ pc[p] = "search"
    /\ LET f       == frame[p]
           channel == CHANNELS_TO_SEARCH[f.channel_i]
           Continue(o) ==
               IF f.channel_i < Len(CHANNELS_TO_SEARCH)
               THEN Goto(p, [f EXCEPT !.channel_i = @ + 1], o, "search")
               ELSE NotFound(p, f, o)
       IN  \E outcome \in {"ok", "not ok", "raise"} :
             LET o == [obs[p] EXCEPT !.fetched = Append(@, channel),
                                     !.replies = Append(@, outcome)]
             IN CASE outcome = "raise"  -> Abort(p, f, o)
                  [] outcome = "not ok" -> Continue(o)
                  [] OTHER ->
                       LET msgs == Page(history[channel])
                           i    == FirstReversedMatch(msgs, f.order_number)
                       IN  IF i = 0
                           THEN Continue(o)
                           ELSE Goto(p, [f EXCEPT !.ts = msgs[i].ts, !.channel = channel],
                                     [o EXCEPT !.resolution = "found"], "create")
    /\ UNCHANGED <<order_tracking, objs, history, writes, delivered, threads>>

\* lines 176-182: order_tracking[order_number] = {...}; the responses
\* find_new_order_message looked at are gone with its return
NewRecord(ts, channel) ==
    [ts |-> ts, channel |-> channel,
     payment |-> NONE, fulfillment |-> NONE, stock |-> NONE]

\* Create that binds order_tracking to a new dict holding only this record
CreateAlone(p) ==
    /\ pc[p] = "create"
    /\ LET n == frame[p].order_number
       IN  /\ objs' = Append(objs, NewRecord(frame[p].ts, frame[p].channel))
           /\ order_tracking' = (n :> (Len(objs) + 1))
           /\ writes' = (n :> (WritesOf(n) + 1)) @@ writes
    /\ pc' = [pc EXCEPT ![p] = "payment_check"]
    /\ obs' = [obs EXCEPT ![p].replies = << >>]
    /\ answered' = NoDelivery
    /\ reported' = NoReport
    /\ UNCHANGED <<history, frame, delivered, threads>>

Create(p) ==
    /\ pc[p] = "create"
    /\ LET n == frame[p].order_number
       IN  /\ objs' = Append(objs, NewRecord(frame[p].ts, frame[p].channel))
           /\ order_tracking' = (n :> (Len(objs) + 1)) @@ order_tracking
           /\ writes' = (n :> (WritesOf(n) + 1)) @@ writes
    /\ pc' = [pc EXCEPT ![p] = "payment_check"]
    /\ obs' = [obs EXCEPT ![p].replies = << >>]
    /\ answered' = NoDelivery
    /\ reported' = NoReport
    /\ UNCHANGED <<history, frame, delivered, threads>>

(* ------------- the three status blocks (186-211), shared -------------- *)
PcReact(d) == CASE d = "payment" -> "payment_react"
                [] d = "fulfillment" -> "fulfillment_react"
                [] OTHER -> "stock_react"
PcSet(d)   == CASE d = "payment" -> "payment_set"
                [] d = "fulfillment" -> "fulfillment_set"
                [] OTHER -> "stock_set"
\* where the handler goes after the block of dimension d
PcAfter(d) == CASE d = "payment" -> "fulfillment_check"
                [] d = "fulfillment" -> "stock_fetch"
                [] OTHER -> "return"

Emoji(d, value) ==
    CASE d = "payment"     -> payment_reaction(value)
      [] d = "fulfillment" -> fulfillment_reaction(value)
      [] OTHER             -> stock_reaction(value)

\* leave the block of dimension d: the next block, or line 213 after the last
Leave(p, f, o, d, post) ==
    IF PcAfter(d) = "return"
    THEN Respond(p, f, o, post, 200, "ok true")
    ELSE Goto(p, f, o, PcAfter(d))

\* Changed without the comparison with the stored value
ChangedAlways(value, stored) == Truthy(value)

\* `if value and value != track[d]`
Changed(value, stored) == Truthy(value) /\ value # stored

\* CheckDim that stores the value only when it has an emoji
CheckDimMappedOnly(p, f, d, value) ==
    LET stored == objs[f.track][d]
        o      == [obs[p] EXCEPT !.seen[d] = stored]
    IN  /\ IF Changed(value, stored) /\ Truthy(Emoji(d, value))
           THEN Goto(p, f, o, PcReact(d))
           ELSE Leave(p, f, o, d, RecordOf(f.order_number))
        /\ UNCHANGED <<order_tracking, objs, history, writes, delivered, threads>>

\* the comparison, the mapping and `if emoji`
CheckDim(p, f, d, value) ==
    LET stored == objs[f.track][d]
        o      == [obs[p] EXCEPT !.seen[d] = stored]
    IN  /\ IF Changed(value, stored)
           THEN Goto(p, f, o, IF Truthy(Emoji(d, value)) THEN PcReact(d) ELSE PcSet(d))
           ELSE Leave(p, f, o, d, RecordOf(f.order_number))
        /\ UNCHANGED <<order_tracking, objs, history, writes, delivered, threads>>

\* add_reaction (67-82): the request, then resp.json() for the log line; a
\* timeout or a body that is not JSON raises, an error answer does not
ReactionOutcomes == {"ok", "error", "raise"}

add_reaction(p, d, channel, message_ts, emoji_name) ==
    \E outcome \in ReactionOutcomes :
        LET o == [obs[p] EXCEPT !.reacts[d] =
                    [name |-> emoji_name, channel |-> channel, ts |-> message_ts,
                     outcome |-> IF outcome = "raise" THEN "raise" ELSE "answered"]]
        IN  IF outcome = "raise"
            THEN Abort(p, frame[p], o)
            ELSE Goto(p, frame[p], o, PcSet(d))

ReactDim(p, d, value) ==
    /\ add_reaction(p, d, objs[frame[p].track].channel, objs[frame[p].track].ts,
                    Emoji(d, value))
    /\ UNCHANGED <<order_tracking, objs, history, writes, delivered, threads>>

\* track[d] = value
SetDim(p, d, value) ==
    /\ objs' = [objs EXCEPT ![frame[p].track][d] = value]
    /\ order_tracking' = order_tracking
    /\ Leave(p, frame[p], obs[p], d, objs'[order_tracking[frame[p].order_number]])
    /\ UNCHANGED <<history, writes, delivered, threads>>

(* --------------------------- payment (184-193) ------------------------ *)
PaymentCheck(p) ==
    /\ pc[p] = "payment_check"
    /\ CheckDim(p, [frame[p] EXCEPT !.track = order_tracking[frame[p].order_number]],
                "payment", frame[p].order.financial_status)

PaymentReact(p) ==
    /\ pc[p] = "payment_react"
    /\ ReactDim(p, "payment", frame[p].order.financial_status)

\* PaymentSet that writes the payment value to the fulfillment field as well
PaymentSetBoth(p) ==
    /\ pc[p] = "payment_set"
    /\ objs' = [objs EXCEPT ![frame[p].track].payment = frame[p].order.financial_status,
                            ![frame[p].track].fulfillment = frame[p].order.financial_status]
    /\ order_tracking' = order_tracking
    /\ Goto(p, frame[p], obs[p], "fulfillment_check")
    /\ UNCHANGED <<history, writes, delivered, threads>>

PaymentSet(p) ==
    /\ pc[p] = "payment_set"
    /\ SetDim(p, "payment", frame[p].order.financial_status)

(* ------------------------- fulfillment (196-202) ---------------------- *)
FulfillmentCheck(p) ==
    /\ pc[p] = "fulfillment_check"
    /\ CheckDim(p, frame[p], "fulfillment", frame[p].order.fulfillment_status)

FulfillmentReact(p) ==
    /\ pc[p] = "fulfillment_react"
    /\ ReactDim(p, "fulfillment", frame[p].order.fulfillment_status)

FulfillmentSet(p) ==
    /\ pc[p] = "fulfillment_set"
    /\ SetDim(p, "fulfillment", frame[p].order.fulfillment_status)

(* ---------------------------- stock (205-213) ------------------------- *)
\* fetch_stock_status (113-150): the request may time out or answer with a
\* body that is not JSON (both raise); otherwise the value is dug out of it
fetch_stock_status(p) ==
    /\ pc[p] = "stock_fetch"
    /\ LET o == [obs[p] EXCEPT !.queried = TRUE]
       IN  \/ Abort(p, frame[p], o)
           \/ \E i \in 1..Len(StockBodies) :
                LET value == StockValue(StockBodies[i])
                    got   == [o EXCEPT !.lacking = ~HasValue(StockBodies[i])]
                IN  IF value.t = "raise"
                    THEN Abort(p, frame[p], got)
                    ELSE Goto(p, [frame[p] EXCEPT !.stock =
                                     IF value.t = "str" THEN value.s ELSE NONE],
                              got, "stock_check")
    /\ UNCHANGED <<order_tracking, objs, history, writes, delivered, threads>>

StockCheck(p) ==
    /\ pc[p] = "stock_check"
    /\ CheckDim(p, frame[p], "stock", frame[p].stock)

StockReact(p) ==
    /\ pc[p] = "stock_react"
    /\ ReactDim(p, "stock", frame[p].stock)

StockSet(p) ==
    /\ pc[p] = "stock_set"
    /\ SetDim(p, "stock", frame[p].stock)

(* ---------------------------- health (219-224) ----------------------- *)
\* GET /health on a free request thread: len(order_tracking) goes out
health ==
    /\ \E p \in Procs : p <= threads /\ pc[p] = "idle"
    /\ reported' = Cardinality(DOMAIN order_tracking)
    /\ answered' = NoDelivery
    /\ UNCHANGED <<order_tracking, objs, history, pc, frame, obs, writes, delivered, threads>>

Next ==
    \/ \E c \in SeqRange(CHANNELS_TO_SEARCH), text \in Texts : PostMessage(c, text)
    \/ \E p \in Procs : Receive(p)
    \/ \E p \in Procs : FetchHistory(p)
    \/ \E p \in Procs : Create(p)
    \/ \E p \in Procs : PaymentCheck(p)
    \/ \E p \in Procs : PaymentReact(p)
    \/ \E p \in Procs : PaymentSet(p)
    \/ \E p \in Procs : FulfillmentCheck(p)
    \/ \E p \in Procs : FulfillmentReact(p)
    \/ \E p \in Procs : FulfillmentSet(p)
    \/ \E p \in Procs : fetch_stock_status(p)
    \/ \E p \in Procs : StockCheck(p)
    \/ \E p \in Procs : StockReact(p)
    \/ \E p \in Procs : StockSet(p)
    \/ health

Spec == Init /\ [][Next]_vars

SpecSeq == InitSeq /\ [][Next]_vars

(* ---------------- the text functions on a wider input ----------------- *)
\* One delivery to a server whose channels hold messages from before it
\* started: the order number (166) and the search (37-61) on more names and
\* texts than the deliveries above carry.
MatchTexts ==
    { <<"s","t",".","o","r","d","e","r"," ","1","2">>,
      <<"S","T",".","O","r","d","e","r"," ","#","1","2">>,
      <<"s","t",".","o","r","d","e","r","1","2">>,
      <<"s","t",".","o","r","d","e","r","s"," ","1","2">>,
      <<"o","r","d","e","r"," ","#","1","2">>,
      <<"s","t",".","o","r","d","e","r"," ","5"," ","s","t",".","o","r","d","e","r"," ","1","2">>,
      <<"s","t",".","o","r","d","e","r"," ","1","2"," ","s","t",".","o","r","d","e","r"," ","5">>,
      <<"N","e","w"," ","s","t",".","o","r","d","e","r"," "," ","#","1","2","!">>,
      <<"s","t",".","o","r","d","e","r"," ","1","2","3">>,
      <<"x","s","t",".","o","r","d","e","r"," ","1","2">>,
      <<"s","t",".","o","r","d","e","r"," ","#","1","2","a">>,
      <<"s","t",".","o","r","d","e","r"," ","#"," ","1","2">>,
      <<"s","t","_","o","r","d","e","r"," ","1","2">>,
      << >> }

\* texts of the channels that hold several messages
FindTexts ==
    { <<"s","t",".","o","r","d","e","r"," ","1","2">>,
      <<"S","T",".","o","r","d","e","r"," ","#","5">> }

NamedOrders ==
    { Order(Str(name), "paid", NONE) : name \in
        { <<"1","2">>,
          <<"#","1","2">>,
          <<" ","#","1","2"," ">>,
          <<"1">>,
          <<"5">>,
          <<"1","2","3">>,
          <<"1","#","2">>,
          <<"#","1","#","2">>,
          <<"#">> } }

\* sequences over S of length n
SeqsOf(S, n) == [1..n -> S]

\* a channel's messages, most recent first, the oldest with timestamp base + 1
Channel(texts, base) ==
    [i \in 1..Len(texts) |-> [ts |-> base + Len(texts) + 1 - i, text |-> texts[i]]]

ChannelTexts ==
    {<< >>} \cup SeqsOf(MatchTexts, 1)
            \cup UNION {SeqsOf(FindTexts, n) : n \in 2..MaxMsgs}

InitText ==
    /\ \E a \in ChannelTexts, b \in ChannelTexts :
         history = [c \in SeqRange(CHANNELS_TO_SEARCH) |->
                      IF c = CHANNELS_TO_SEARCH[1] THEN Channel(a, 10) ELSE Channel(b, 20)]
    /\ order_tracking = << >>
    /\ objs = << >>
    /\ answered = NoDelivery
    /\ pc = [p \in Procs |-> "idle"]
    /\ frame = [p \in Procs |-> IdleFrame]
    /\ obs = [p \in Procs |-> IdleObs]
    /\ writes = << >>
    /\ reported = NoReport
    /\ delivered = MaxDeliveries - 1
    /\ threads = 1

ReceiveNamed(p) == Deliver(p, NamedOrders)

NextText ==
    \/ \E p \in Procs : ReceiveNamed(p)
    \/ \E p \in Procs : FetchHistory(p)

SpecText == InitText /\ [][NextText]_vars

(* ======================== properties of the relay ===================== *)
\* The state right after a handler has answered shows the whole delivery:
\* `answered` holds its locals and what it did, the other variables are as the
\* answer left them.
Answered == answered.frame.response.status # 0
Status   == answered.frame.response.status
Did      == answered.obs
Before   == answered.obs.prev

\* the value a delivery brings for dimension d
Incoming(f, d) ==
    CASE d = "payment"     -> f.order.financial_status
      [] d = "fulfillment" -> f.order.fulfillment_status
      [] OTHER             -> f.stock

\* the delivery ran alone and right after the answer to an identical payload
\* that ran alone too, and the metadata query gave both the same stock value
Redelivery ==
    /\ Answered /\ Did.solo
    /\ Before.same /\ Before.solo
    /\ answered.frame.stock = Before.stock

NoReaction == \A d \in Dims : Did.reacts[d] = NoCall

(* ------------------------------- C1 ----------------------------------- *)
\* C1 as stated: the second of two identical deliveries, the first one handled
\* to its return (200 or 202) before the second starts, dispatches no reaction
\* and leaves the tracking record as it was (looked at where the second one is
\* handled to its return as well).
C1_SecondDeliveryIsSilent ==
    (Redelivery /\ Before.status \in {200, 202} /\ Status \in {200, 202})
        => NoReaction /\ answered.post = Did.pre

\* C1 (amended): when the first of two identical deliveries was answered 200,
\* the second dispatches no reaction and leaves the tracking record unchanged;
\* when the first was answered 200 or 202, no dimension gets a reaction from
\* both deliveries.
C1_RedeliveryAfter200IsSilent ==
    /\ (Redelivery /\ Before.status = 200)
          => NoReaction /\ answered.post = Did.pre
    /\ (Redelivery /\ Before.status \in {200, 202})
          => \A d \in Dims : ~(d \in Before.reacted /\ Did.reacts[d] # NoCall)

C1_Witness ==
    /\ Redelivery /\ Before.status = 200 /\ Status = 200
    /\ Before.reacted = Dims
    /\ NoReaction

(* ------------------------------- C2 ----------------------------------- *)
\* C2: the map entry of an order number is written by at most one delivery.
C2_RecordWrittenOnce ==
    \A n \in DOMAIN writes : writes[n] <= 1

(* ------------------------------- C3 ----------------------------------- *)
\* C3: once an order number has a record, the message timestamp and the channel
\* of its record are the same in every later state.
C3_MessageRefNeverChanges ==
    [][\A n \in DOMAIN order_tracking :
          /\ n \in DOMAIN order_tracking'
          /\ objs'[order_tracking'[n]].ts = objs[order_tracking[n]].ts
          /\ objs'[order_tracking'[n]].channel = objs[order_tracking[n]].channel]_vars

(* ------------------------------- C4 ----------------------------------- *)
\* the mapping as the specification lists it
C4_Symbol(d, value) ==
    CASE d = "payment" /\ value = "pending"        -> "hourglass_flowing_sand"
      [] d = "payment" /\ value = "authorized"     -> "lock"
      [] d = "payment" /\ value = "paid"           -> "white_check_mark"
      [] d = "payment" /\ value = "voided"         -> "x"
      [] d = "fulfillment" /\ value = "unfulfilled" -> "mailbox_with_no_mail"
      [] d = "fulfillment" /\ value = "fulfilled"  -> "rocket"
      [] d = "stock" /\ value \in {"stock available", "Stock Available",
                                   "STOCK AVAILABLE"} -> "package"
      [] OTHER                                     -> NONE

\* status values the three mappings are compared on
C4_Values ==
    { "pending", "authorized", "paid", "voided", "refunded", "partially_paid",
      "unfulfilled", "fulfilled", "partial", "restocked",
      "Stock Available", "stock available", "STOCK AVAILABLE", "Out Of Stock", "" }

C5_StoredAdvancesAfterAnyReactionCall ==
    (Answered /\ Did.solo) =>
        \A d \in Dims :
            Did.reacts[d] # NoCall => answered.post[d] = Incoming(answered.frame, d)

(* ------------------------------- C6 ----------------------------------- *)
\* C6: every answer of the webhook is 400, 202 or 200.
C6_OnlyThreeOutcomes ==
    Answered => Status \in {400, 202, 200}

(* ------------------------------- C7 ----------------------------------- *)
\* C7: when the reaction call of the payment dimension fails, the fulfillment
\* and stock dimensions of the same delivery are still compared.
C7_FailedCallDoesNotStopOtherDimensions ==
    (Answered /\ Did.reacts["payment"].outcome = "raise") =>
        /\ Did.seen["fulfillment"] # UNSEEN
        /\ Did.queried
        /\ Did.seen["stock"] # UNSEEN

(* ------------------------------- C8 ----------------------------------- *)
\* C8: a delivery that finds no record and whose search finds no match in any
\* channel is answered 202 with ok=false, leaves the map without an entry for
\* the order number, calls neither reactions.add nor the metadata query; and a
\* delivery that follows a 202 for its order number, with still no record,
\* fetches the channel histories again, beginning with the first channel.
C8_UnresolvedIsNotRemembered ==
    /\ (Answered /\ Did.solo /\ Did.resolution = "not found") =>
          /\ Status = 202
          /\ answered.frame.response.body = "ok false"
          /\ answered.frame.order_number \notin DOMAIN order_tracking
          /\ answered.post = NoRecord
          /\ NoReaction
          /\ ~Did.queried
          /\ Did.fetched = CHANNELS_TO_SEARCH
    /\ ( /\ Answered /\ Did.solo
         /\ Before.status = 202
         /\ Before.number = answered.frame.order_number )
          => /\ Did.resolution \in {"found", "not found"} \/ Status = 500
             /\ Len(Did.fetched) >= 1
             /\ Did.fetched[1] = CHANNELS_TO_SEARCH[1]

C8_Witness ==
    /\ Answered /\ Did.solo
    /\ Before.status = 202
    /\ Before.number = answered.frame.order_number
    /\ Did.resolution = "found"
    /\ Status = 200

(* ------------------------------- C9 ----------------------------------- *)
\* C9: a webhook whose name field is missing, null or empty is answered 400,
\* creates or changes no record and makes no outbound call.
C9_MissingNameIsRejected ==
    (Answered /\ answered.frame.order.name \in {Absent, Null, Str(<< >>)}) =>
        /\ Status = 400
        /\ Did.fetched = << >>
        /\ NoReaction
        /\ ~Did.queried
        /\ answered.post = Did.pre

(* ------------------------------- C10 ---------------------------------- *)
\* C10: a dimension whose incoming value is absent or equal to the stored value
\* gets no reaction and keeps its stored value, whatever the other dimensions
\* of the same delivery do.
C10_UnchangedDimensionIsLeftAlone ==
    (Answered /\ Did.solo) =>
        \A d \in Dims :
            ~(Truthy(Incoming(answered.frame, d))
              /\ Incoming(answered.frame, d) # Did.pre[d])
              => /\ Did.reacts[d] = NoCall
                 /\ answered.post[d] = Did.pre[d]

\* only the fulfillment status differs from what is stored
C10_Witness ==
    /\ Answered /\ Did.solo /\ Status = 200
    /\ Did.pre.payment = "paid"
    /\ answered.frame.order.financial_status = "paid"
    /\ Did.pre.fulfillment = NONE
    /\ answered.frame.order.fulfillment_status = "fulfilled"
    /\ answered.frame.stock = Did.pre.stock
    /\ Truthy(answered.frame.stock)
    /\ Did.reacts["fulfillment"].name = "rocket"
    /\ Did.reacts["payment"] = NoCall
    /\ Did.reacts["stock"] = NoCall
    /\ answered.post.payment = "paid"
    /\ answered.post.stock = Did.pre.stock

(* ------------------------------- C11 ---------------------------------- *)
\* the values that have a symbol, as the specification lists them
C11_Mapped(d) ==
    CASE d = "payment"     -> {"pending", "authorized", "paid", "voided"}
      [] d = "fulfillment" -> {"unfulfilled", "fulfilled"}
      [] OTHER             -> {"stock available", "Stock Available", "STOCK AVAILABLE"}

\* C11: in a delivery that compared dimension d, when the incoming value is
\* present, differs from the stored value and has no symbol, no reaction call
\* is made for d and the stored value of d is the incoming value afterwards.
C11_UnmappedValueIsStoredSilently ==
    (Answered /\ Did.solo) =>
        \A d \in Dims :
            LET value  == Incoming(answered.frame, d)
                stored == Did.seen[d]
            IN  ( /\ stored # UNSEEN
                  /\ Truthy(value)
                  /\ value # stored
                  /\ value \notin C11_Mapped(d) )
                  => /\ Did.reacts[d] = NoCall
                     /\ answered.post[d] = value

\* a refund and an out-of-stock value arrive for an order that was paid
C11_Witness ==
    /\ Answered /\ Did.solo /\ Status = 200
    /\ Did.pre.payment = "paid"
    /\ answered.frame.order.financial_status = "refunded"
    /\ answered.frame.stock = "Out Of Stock"
    /\ Did.reacts["payment"] = NoCall
    /\ Did.reacts["stock"] = NoCall
    /\ Did.reacts["fulfillment"].name = "rocket"
    /\ answered.post.payment = "refunded"
    /\ answered.post.stock = "Out Of Stock"

(* ------------------------------- C12 ---------------------------------- *)
\* C12: when the metadata response lacks the value at some level of the path
\* (a missing key or a null), the delivery is answered 200, dispatches no stock
\* reaction, leaves the stored stock value as it was and keeps the payment and
\* fulfillment values it stored.
C12_MalformedStockResponseIsNoValue ==
    ( /\ Answered /\ Did.solo
      /\ Did.queried /\ Did.lacking )
      => /\ Status = 200
         /\ Did.reacts["stock"] = NoCall
         /\ answered.post.stock = Did.pre.stock
         /\ \A d \in {"payment", "fulfillment"} :
               Truthy(Incoming(answered.frame, d))
                  => answered.post[d] = Incoming(answered.frame, d)

(* ------------------------------- C13 ---------------------------------- *)
\* C13: a delivery with an order number fetches channel history exactly when it
\* finds no record for the number; a delivery that finds a record does no
\* resolution, leaves the message reference of the record as it is and sends
\* its reactions to that message.
C13_ResolvedOnceThenReused ==
    (Answered /\ Len(answered.frame.order_number) > 0) =>
        /\ Did.fetched = << >> <=> Did.pre # NoRecord
        /\ Did.pre # NoRecord =>
              /\ Did.resolution = "none"
              /\ Did.solo =>
                    /\ answered.post.ts = Did.pre.ts
                    /\ answered.post.channel = Did.pre.channel
                    /\ \A d \in Dims :
                          Did.reacts[d] # NoCall =>
                             /\ Did.reacts[d].ts = Did.pre.ts
                             /\ Did.reacts[d].channel = Did.pre.channel

\* a later delivery reacts on the message an earlier one found in the second channel
C13_Witness ==
    /\ Answered /\ Did.solo /\ Status = 200
    /\ Did.pre # NoRecord
    /\ Did.pre.channel = CHANNELS_TO_SEARCH[2]
    /\ Did.fetched = << >>
    /\ Did.reacts["fulfillment"].name = "rocket"
    /\ Did.reacts["fulfillment"].ts = Did.pre.ts
    /\ Did.reacts["fulfillment"].channel = CHANNELS_TO_SEARCH[2]

(* ------------------------------- C14 ---------------------------------- *)
\* the searches a state shows: under way, just completed with a match, or
\* answered
Searches ==
    {[f |-> frame[p], o |-> obs[p]] : p \in {q \in Procs : pc[q] \in {"search", "create"}}}
       \cup (IF Answered THEN {[f |-> answered.frame, o |-> answered.obs]} ELSE {})

\* the configured channels in their priority order
C14_Order == <<"C0A02M2VCTB", "C0A068PHZMY">>

\* channel c holds a message that matches order number n
Has(c, n) ==
    \E i \in 1..Len(history[c]) : is_new_order_message(history[c][i].text, n)

\* C14: the channels are fetched in the configured order; a fetch ends the
\* search with a match exactly when its response is ok and the channel holds a
\* matching message, and then the timestamp and the channel returned are those
\* of a matching message of that channel and no later channel is fetched; a
\* non-ok response passes to the next channel; the search fails exactly when
\* every channel was fetched and none yielded a match.
C14_ChannelsInOrderFirstMatchWins ==
    \A s \in Searches :
        LET k == Len(s.o.fetched)
            n == s.f.order_number
        IN  /\ Len(s.o.replies) = k
            /\ k <= Len(C14_Order)
            /\ \A j \in 1..k : s.o.fetched[j] = C14_Order[j]
            /\ \A j \in 1..k :
                  (s.o.replies[j] = "ok" /\ Has(s.o.fetched[j], n))
                     <=> (j = k /\ s.o.resolution = "found")
            /\ s.o.resolution = "found" =>
                  /\ k >= 1
                  /\ s.f.channel = C14_Order[k]
                  /\ \E i \in 1..Len(history[s.f.channel]) :
                        /\ history[s.f.channel][i].ts = s.f.ts
                        /\ is_new_order_message(history[s.f.channel][i].text, n)
            /\ s.o.resolution = "not found" <=>
                  /\ k = Len(C14_Order)
                  /\ \A j \in 1..k : s.o.replies[j] # "raise"
                  /\ s.o.resolution # "found"

\* the first channel holds a match but its fetch is not ok: the match of the
\* second channel is returned
C14_Witness ==
    \E p \in Procs :
        /\ pc[p] = "create"
        /\ obs[p].replies = <<"not ok", "ok">>
        /\ Has(C14_Order[1], frame[p].order_number)
        /\ frame[p].channel = C14_Order[2]
        /\ frame[p].ts > 20

(* ------------------------------- C15 ---------------------------------- *)
\* timestamps of the messages of channel c that match order number n
MatchingTs(c, n) ==
    {history[c][i].ts : i \in {j \in 1..Len(history[c]) :
                                  is_new_order_message(history[c][j].text, n)}}

\* C15 as stated: the match returned is the most recent matching message of
\* its channel.
C15_MostRecentMatchIsReturned ==
    \A s \in Searches :
        s.o.resolution = "found" =>
            \A ts \in MatchingTs(s.f.channel, s.f.order_number) : ts <= s.f.ts

\* C15 (amended): the match returned is the oldest matching message of the
\* fetched page of its channel.
C15_OldestMatchIsReturned ==
    \A s \in Searches :
        s.o.resolution = "found" =>
            /\ s.f.ts \in MatchingTs(s.f.channel, s.f.order_number)
            /\ \A ts \in MatchingTs(s.f.channel, s.f.order_number) : ts >= s.f.ts

\* two messages of the first channel match and the older one is returned
C15_Witness ==
    \E p \in Procs :
        /\ pc[p] = "create"
        /\ frame[p].channel = CHANNELS_TO_SEARCH[1]
        /\ Cardinality(MatchingTs(frame[p].channel, frame[p].order_number)) >= 2
        /\ frame[p].ts = 11

(* ------------------------------- C16 ---------------------------------- *)
\* the text, compared case-insensitively, contains somewhere the token
\* st.order, then whitespace, an optional '#', and the digits n as a whole word
C16_Contains(text, n) ==
    LET t == lower(text)
    IN  /\ Len(n) > 0
        /\ \A x \in 1..Len(n) : IsDigit(n[x])
        /\ \E i \in 1..Len(t), sp \in 1..Len(t), hash \in {0, 1} :
              LET spaces == i + Len(Marker)
                  digits == spaces + sp + hash
                  end    == digits + Len(n) - 1
              IN  /\ end <= Len(t)
                  /\ ~WordAt(t, i - 1)
                  /\ SubSeq(t, i, spaces - 1) = Marker
                  /\ \A x \in spaces..(spaces + sp - 1) : IsSpace(t[x])
                  /\ hash = 1 => t[spaces + sp] = "#"
                  /\ SubSeq(t, digits, end) = n
                  /\ ~WordAt(t, end + 1)

\* C16: a fetched channel yields a match exactly when one of its messages
\* contains the token with the order number, and the message returned is such
\* a message.
C16_MatchIffTokenWithNumber ==
    \A s \in Searches :
        LET k == Len(s.o.fetched)
            n == s.f.order_number
        IN  /\ \A j \in 1..k :
                  s.o.replies[j] = "ok" =>
                     ( (j = k /\ s.o.resolution = "found")
                         <=> \E i \in 1..Len(history[s.o.fetched[j]]) :
                                C16_Contains(history[s.o.fetched[j]][i].text, n) )
            /\ s.o.resolution = "found" =>
                  \E i \in 1..Len(history[s.f.channel]) :
                      /\ history[s.f.channel][i].ts = s.f.ts
                      /\ C16_Contains(history[s.f.channel][i].text, n)

(* ------------------------------- C17 ---------------------------------- *)
\* the name with surrounding whitespace trimmed and one leading '#' removed,
\* every other character kept
C17_Key(name) ==
    LET t == strip(name)
    IN  strip(IF Len(t) > 0 /\ t[1] = "#" THEN Tail(t) ELSE t)

\* C17: the order number a delivery uses is its name without a leading '#' and
\* without surrounding whitespace, nothing else changed.
C17_KeyKeepsInnerHash ==
    \A s \in Searches :
        s.f.order.name.t = "str" =>
            s.f.order_number = C17_Key(s.f.order.name.s)

(* ------------------------------- C18 ---------------------------------- *)
\* C18: a delivery that ran without another one beside it, from its lookup to
\* its answer, and resolved the message is the only writer of the map entry,
\* and every stored value it compared with is the one the record held when it
\* arrived; every delivery that resolved had found no record.  Two writers of
\* one entry and a comparison with a stale value need deliveries that overlap.
C18_RacesNeedOverlap ==
    Answered =>
        /\ Did.resolution = "found" =>
              /\ Did.pre = NoRecord
              /\ WritesOf(answered.frame.order_number) >= 1
              /\ Did.solo => WritesOf(answered.frame.order_number) = 1
        /\ Did.solo => \A d \in Dims : Did.seen[d] \in {UNSEEN, Did.pre[d]}

\* two handlers of one order number have both resolved the message and both
\* written the map entry, both compared the payment status with the same
\* stale value of the same record, and both dispatched the same reaction
C18_Witness ==
    \E p, q \in Procs :
        /\ p # q
        /\ pc[p] # "idle" /\ pc[q] # "idle"
        /\ frame[p].order_number = frame[q].order_number
        /\ obs[p].resolution = "found" /\ obs[q].resolution = "found"
        /\ WritesOf(frame[p].order_number) = 2
        /\ frame[p].track = frame[q].track
        /\ obs[p].seen["payment"] = NONE /\ obs[q].seen["payment"] = NONE
        /\ obs[p].reacts["payment"] # NoCall
        /\ obs[p].reacts["payment"].name = "white_check_mark"
        /\ obs[q].reacts["payment"] = obs[p].reacts["payment"]

(* ------------------------------- C19 ---------------------------------- *)
\* the record of order number n changes in the step (it is created, replaced
\* or one of its fields is assigned)
RecordChanges(n) ==
    \/ n \notin DOMAIN order_tracking
    \/ objs'[order_tracking'[n]] # objs[order_tracking[n]]

\* C19: no step removes a record; a step that creates or changes the record of
\* an order number is a step of a handler working on that order number; the
\* number of records never decreases and /health reports that number.
C19_OtherRecordsUntouched ==
    [][ /\ \A n \in DOMAIN order_tracking : n \in DOMAIN order_tracking'
        /\ \A n \in DOMAIN order_tracking' :
              RecordChanges(n) =>
                 \E p \in Procs : /\ pc'[p] # pc[p]
                                  /\ pc[p] # "idle"
                                  /\ frame[p].order_number = n
        /\ Cardinality(DOMAIN order_tracking') >= Cardinality(DOMAIN order_tracking)
        /\ reported' # NoReport =>
              reported' = Cardinality(DOMAIN order_tracking') ]_vars

\* /health reports two orders while a handler is about to store a value for
\* one of them and the record of the other holds what was stored before
C19_Witness ==
    /\ reported = 2
    /\ \E p \in Procs :
          /\ pc[p] = "fulfillment_set"
          /\ \E n \in DOMAIN order_tracking :
                /\ n # frame[p].order_number
                /\ RecordOf(n).payment = "paid"

(* ------------------------------- C20 ---------------------------------- *)
\* the reaction call thread p makes for dimension d in the step, if it makes one
C20_Call(p, d) ==
    IF pc'[p] = "idle" THEN answered'.obs.reacts[d] ELSE obs'[p].reacts[d]

\* the message of the call is in its channel and its text matches n
C20_Matches(call, n) ==
    \E i \in 1..Len(history[call.channel]) :
        /\ history[call.channel][i].ts = call.ts
        /\ is_new_order_message(history[call.channel][i].text, n)

\* the call goes to a configured channel, to a message that matches n, and to
\* no message stored for another order number
C20_OwnMessage(call, n) ==
    /\ call.channel \in SeqRange(C14_Order)
    /\ C20_Matches(call, n)
    /\ \A m \in DOMAIN order_tracking \ {n} :
          \/ RecordOf(m).ts # call.ts
          \/ RecordOf(m).channel # call.channel

\* C20: every reaction call made for order number n names the channel and the
\* timestamp that the record of n holds when the call is made; the channel is
\* a configured one, the message with that timestamp is in it and its text
\* matches n; and the message is not the one stored for another order number.
C20_ReactionsGoToTheOrdersMessage ==
    [][\A p \in Procs, d \in Dims :
          (pc[p] = PcReact(d) /\ pc'[p] # pc[p]) =>
              LET n == frame[p].order_number
                  call == C20_Call(p, d)
              IN  /\ n \in DOMAIN order_tracking
                  /\ call.channel = RecordOf(n).channel
                  /\ call.ts = RecordOf(n).ts
                  /\ C20_OwnMessage(call, n)]_vars

====
